---- MODULE Spec2Model ----
(***************************************************************************)
(* Acquisition-to-disk pipeline of CameraInterfaces.py:                    *)
(*   AcquireHamamatsu (producer thread)  --Queue.Queue-->                  *)
(*   WriterHamamatsu  (consumer thread)  --> TIFF container + JSON sidecar *)
(* Each thread is modelled by a program counter and one action per         *)
(* statement that another thread can observe.  The queue is the bounded    *)
(* Queue.Queue the caller hands to both constructors; put() and get() are  *)
(* called with their default (blocking, no timeout) arguments.             *)
(***************************************************************************)
EXTENDS Integers, Sequences, FiniteSets, TLC

\* ------------------------------------------------------------------ bounds
MaxAttempts == 3      \* frame reads the duration allows at most
MaxCap == 2           \* largest queue capacity (maxsize) explored

\* ------------------------------------------------------------- data model
MetaKeys == {"framerate", "exposure", "version", "stims", "levels"}

\* Exposure values a session may carry (python 2: 1/0 raises, 1/2 == 0).
Exposures == {0, 1}

\* File names as character sequences, so that endswith/slicing are computed.
FileNames ==
  { <<"a", ".", "t", "i", "f", "f">>,
    <<"a", ".", "t", "i", "f">>,
    <<"a", ".", "a", "v", "i">> }

Frame(n, g) == [tag |-> "frame", id |-> n, good |-> g]
Done == [tag |-> "done", id |-> 0, good |-> TRUE]
NoItem == [tag |-> "none", id |-> 0, good |-> TRUE]

\* Fields save_metadata reads besides 'framerate'.
RecordFields == {"version", "stims", "levels"}

\* Argument dictionaries: any combination of 'framerate' and 'exposure',
\* with the record fields complete or lacking one of them.  'exposure'
\* carries a value, every other key carries 1.
MetadataKeySets ==
  { F \cup R : F \in SUBSET {"framerate", "exposure"},
               R \in { RecordFields \ D : D \in {{}} \cup {{f} : f \in RecordFields} } }

MetadataArgs ==
  UNION { IF "exposure" \in K
            THEN { [k \in K |-> IF k = "exposure" THEN e ELSE 1] : e \in Exposures }
            ELSE { [k \in K |-> 1] }
          : K \in MetadataKeySets }

NoDict == [k \in {} |-> 1]

\* Sample ranges of the conversion: np.arange(65536, dtype=np.uint16) in,
\* np.uint8 out, and the 256 of the divisor.
WideCard == 65536
NarrowCard == 256

EndsWith(s, suf) ==
  /\ Len(s) >= Len(suf)
  /\ SubSeq(s, Len(s) - Len(suf) + 1, Len(s)) = suf

DropLast(s, n) == SubSeq(s, 1, Len(s) - n)

VARIABLES
  q,            \* Queue.Queue contents, oldest first
  capacity,     \* its maxsize
  \* --- AcquireHamamatsu
  ppc,          \* position of the producer thread
  acquire,      \* self._acquire
  frame_num,    \* local frame_num of run()
  grey,         \* value returned by get_grey_values(), not yet put
  camera_open,  \* self.camera_open
  attempts,     \* history: calls of get_grey_values()
  readErrors,   \* history: calls that raised a non-interrupt exception
  pushed,       \* history: every item whose put() completed, in order
  \* --- WriterHamamatsu
  cpc,          \* position of the consumer thread
  write,        \* self.write
  metadata,     \* self.metadata (dictionary)
  mdArg,        \* history: the metadata argument as passed in
  filename,     \* self.filename
  tiff,         \* self.tiff_writer: "none", "open", "closed"
  cam_data,     \* local cam_data of run()
  img_num,      \* local img_num of run()
  written,      \* pages appended to the TIFF container, in order
  closes,       \* history: calls of tiff_writer.close()
  metaFiles,    \* JSON sidecars written, in order (file names)
  popped,       \* history: every item get() returned, in order
  dispError,    \* iv.setImage raised on the frame in hand (message printed)
  cExit,        \* history: why the writer's while loop was left
  wError,       \* exception that ended the writer (constructor or run)
  \* --- BaseWriter, level window and bit-depth conversion
  lpc,          \* "off", "new", "built" (constructed), "saved"
  levels,       \* self.levels = (low, high)
  mdLevels,     \* self.metadata['levels']
  image,        \* argument of convert_to_8bit: 16-bit samples
  out8,         \* its result: 8-bit samples
  zeroDiv,      \* the last _lut_8bit floor-divided by zero
  level_min,    \* meta['level_min'] as written by save_metadata
  level_max     \* meta['level_max']

vars == << q, capacity, ppc, acquire, frame_num, grey, camera_open, attempts,
           readErrors, pushed, cpc, write, metadata, mdArg, filename, tiff,
           cam_data, img_num, written, closes, metaFiles, popped, dispError,
           cExit, wError, lpc, levels, mdLevels, image, out8, zeroDiv,
           level_min, level_max >>

prodVars == << ppc, acquire, frame_num, grey, camera_open, attempts, readErrors >>
consVars == << cpc, write, metadata, mdArg, filename, tiff, cam_data, img_num,
               written, closes, metaFiles, popped, dispError, cExit, wError >>

levelVars == << lpc, levels, mdLevels, image, out8, zeroDiv, level_min, level_max >>
pipeVars == << q, capacity, pushed, prodVars, consVars >>

\* ------------------------------------------------------------------- Init
\* The producer object is constructed (camera open, _acquire True); the
\* writer object is not constructed yet; the queue is empty.
PipelineInit ==
  /\ q = << >>
  /\ capacity \in 1..MaxCap
  /\ ppc = "start"
  /\ acquire = TRUE
  /\ frame_num = 0
  /\ grey = NoItem
  /\ camera_open = TRUE
  /\ attempts = 0
  /\ readErrors = 0
  /\ pushed = << >>
  /\ cpc = "new"
  /\ write = FALSE
  /\ metadata = NoDict
  /\ mdArg = NoDict
  /\ filename = << >>
  /\ tiff = "none"
  /\ cam_data = NoItem
  /\ img_num = 0
  /\ written = << >>
  /\ closes = 0
  /\ metaFiles = << >>
  /\ popped = << >>
  /\ dispError = FALSE
  /\ cExit = "none"
  /\ wError = "none"

\* The level window as the constructor's default leaves it: levels =
\* (0, 65535), nothing converted, no record written.
LevelsIdle ==
  /\ lpc = "off"
  /\ levels = << 0, WideCard - 1 >>
  /\ mdLevels = << 0, WideCard - 1 >>
  /\ image = << >>
  /\ out8 = << >>
  /\ zeroDiv = FALSE
  /\ level_min = 0
  /\ level_max = 0

Init == PipelineInit /\ LevelsIdle

\* ------------------------------------------------------- AcquireHamamatsu
\* run(): frame_num = 0; hcam.startAcquisition(); stop_time = now + duration
AcquireStart ==
  /\ ppc = "start"
  /\ frame_num' = 0
  /\ ppc' = "loop"
  /\ UNCHANGED << q, capacity, levelVars, acquire, grey, camera_open, attempts, readErrors,
                  pushed, consVars >>

\* while (time.time() < self.stop_time) and self._acquire:
\* the wall clock is an input; the duration allows at most MaxAttempts reads.
AcquireLoopTest ==
  /\ ppc = "loop"
  /\ \E timeLeft \in BOOLEAN :
       ppc' = IF timeLeft /\ attempts < MaxAttempts /\ acquire
                THEN "read" ELSE "putdone"
  /\ UNCHANGED << q, capacity, levelVars, acquire, frame_num, grey, camera_open, attempts,
                  readErrors, pushed, consVars >>

\* self.get_grey_values() returns a frame (of the expected size or not).
AcquireReadOk ==
  /\ ppc = "read"
  /\ attempts' = attempts + 1
  /\ \E g \in BOOLEAN : grey' = Frame(attempts + 1, g)
  /\ ppc' = "put"
  /\ UNCHANGED << q, capacity, levelVars, acquire, frame_num, camera_open, readErrors,
                  pushed, consVars >>

\* self.get_grey_values() raises, yet an item is put for the failed attempt.
AcquireReadErrorPushes ==
  /\ ppc = "read"
  /\ Len(q) < capacity
  /\ attempts' = attempts + 1
  /\ readErrors' = readErrors + 1
  /\ q' = Append(q, Frame(attempts + 1, TRUE))
  /\ pushed' = Append(pushed, Frame(attempts + 1, TRUE))
  /\ ppc' = "loop"
  /\ UNCHANGED << capacity, levelVars, acquire, frame_num, grey, camera_open, consVars >>

\* self.get_grey_values() raises: except Exception prints, the loop goes on;
\* nothing is put and frame_num is not incremented.
AcquireReadError ==
  /\ ppc = "read"
  /\ attempts' = attempts + 1
  /\ readErrors' = readErrors + 1
  /\ ppc' = "loop"
  /\ UNCHANGED << q, capacity, levelVars, acquire, frame_num, grey, camera_open, pushed,
                  consVars >>

\* self.q.put(frame) with a full queue, had it been put_nowait: Queue.Full is
\* swallowed by except Exception and the frame is gone.
AcquirePutNoWait ==
  /\ ppc = "put"
  /\ IF Len(q) < capacity
       THEN /\ q' = Append(q, grey)
            /\ pushed' = Append(pushed, grey)
            /\ frame_num' = frame_num + 1
       ELSE UNCHANGED << q, pushed, frame_num >>
  /\ grey' = NoItem
  /\ ppc' = "loop"
  /\ UNCHANGED << capacity, levelVars, acquire, camera_open, attempts, readErrors, consVars >>

\* self.q.put(frame): blocks while the queue is full; then print and
\* frame_num += 1.
AcquirePut ==
  /\ ppc = "put"
  /\ Len(q) < capacity
  /\ q' = Append(q, grey)
  /\ pushed' = Append(pushed, grey)
  /\ frame_num' = frame_num + 1
  /\ grey' = NoItem
  /\ ppc' = "loop"
  /\ UNCHANGED << capacity, levelVars, acquire, camera_open, attempts, readErrors, consVars >>

\* except KeyboardInterrupt: self.end(); raise KeyboardInterrupt
\* The interrupt arrives inside the try block: during the frame read or
\* during the (possibly blocked) put.  self.end() is AcquireHamamatsu.end,
\* which only clears _acquire; the exception then leaves run().
AcquireInterrupt ==
  /\ ppc \in {"read", "put"}
  /\ attempts' = IF ppc = "read" THEN attempts + 1 ELSE attempts
  /\ acquire' = FALSE
  /\ grey' = NoItem
  /\ ppc' = "raised"
  /\ UNCHANGED << q, capacity, levelVars, frame_num, camera_open, readErrors, pushed,
                  consVars >>

\* self.q.put('done'), then back into the loop instead of tearing down.
AcquirePutDoneAgain ==
  /\ ppc = "putdone"
  /\ Len(q) < capacity
  /\ q' = Append(q, Done)
  /\ pushed' = Append(pushed, Done)
  /\ ppc' = "loop"
  /\ UNCHANGED << capacity, levelVars, acquire, frame_num, grey, camera_open, attempts,
                  readErrors, consVars >>

\* self.q.put('done') after the loop.
AcquirePutDone ==
  /\ ppc = "putdone"
  /\ Len(q) < capacity
  /\ q' = Append(q, Done)
  /\ pushed' = Append(pushed, Done)
  /\ ppc' = "teardown"
  /\ UNCHANGED << capacity, levelVars, acquire, frame_num, grey, camera_open, attempts,
                  readErrors, consVars >>

\* super(AcquireHamamatsu, self).end(): stopAcquisition, shutdown,
\* camera_open = False; run() returns.
AcquireTeardown ==
  /\ ppc = "teardown"
  /\ camera_open' = FALSE
  /\ ppc' = "stopped"
  /\ UNCHANGED << q, capacity, levelVars, acquire, frame_num, grey, attempts, readErrors,
                  pushed, consVars >>

\* end() that also puts 'done' to wake the writer.
AcquireEndPutsDone ==
  /\ acquire' = FALSE
  /\ Len(q) < capacity
  /\ q' = Append(q, Done)
  /\ pushed' = Append(pushed, Done)
  /\ UNCHANGED << capacity, levelVars, ppc, frame_num, grey, camera_open, attempts,
                  readErrors, consVars >>

\* AcquireHamamatsu.end(), called by any other thread at any time.
AcquireEnd ==
  /\ acquire' = FALSE
  /\ UNCHANGED << q, capacity, levelVars, ppc, frame_num, grey, camera_open, attempts,
                  readErrors, pushed, consVars >>

\* -------------------------------------------------------- WriterHamamatsu
\* A constructor that insists on 'framerate' and never looks at 'exposure'.
FramerateOnly(md) ==
  IF "framerate" \in DOMAIN md
    THEN [error |-> "none", metadata |-> md]
    ELSE [error |-> "KeyError", metadata |-> md]

\* BaseWriter.__init__: if 'framerate' not in metadata: try
\* metadata['framerate'] = 1/metadata['exposure'] except KeyError: raise
\* KeyError.  (Python 2 division: 1/0 raises ZeroDivisionError.)
DeriveFramerate(md) ==
  IF "framerate" \in DOMAIN md
    THEN [error |-> "none", metadata |-> md]
    ELSE IF "exposure" \notin DOMAIN md
      THEN [error |-> "KeyError", metadata |-> md]
      ELSE IF md["exposure"] = 0
        THEN [error |-> "ZeroDivisionError", metadata |-> md]
        ELSE [error |-> "none",
              metadata |-> [k \in DOMAIN md \cup {"framerate"} |->
                              IF k = "framerate" THEN 1 \div md["exposure"]
                                                 ELSE md[k]]]

\* WriterHamamatsu.__init__ -> BaseWriter.__init__: store the arguments,
\* derive the framerate, open the TiffWriter, then self.write = True.
WriterInit ==
  /\ cpc = "new"
  /\ \E md \in MetadataArgs, fn \in FileNames :
       LET r == DeriveFramerate(md) IN
         /\ mdArg' = md
         /\ filename' = fn
         /\ metadata' = r.metadata
         /\ wError' = r.error
         /\ IF r.error = "none"
              THEN /\ tiff' = "open"
                   /\ write' = TRUE
                   /\ cpc' = "ready"
              ELSE /\ UNCHANGED << tiff, write >>
                   /\ cpc' = "initfailed"
  /\ UNCHANGED << q, capacity, levelVars, prodVars, pushed, cam_data, img_num, written,
                  closes, metaFiles, popped, dispError, cExit >>

\* run(): img_num = 0
WriterStart ==
  /\ cpc = "ready"
  /\ img_num' = 0
  /\ cpc' = "loop"
  /\ UNCHANGED << q, capacity, levelVars, prodVars, pushed, write, metadata, mdArg,
                  filename, tiff, cam_data, written, closes, metaFiles, popped,
                  dispError, cExit, wError >>

\* while True: the loop never looks at self.write.
WriterLoopTestIgnoresFlag ==
  /\ cpc = "loop"
  /\ cpc' = "get"
  /\ UNCHANGED << q, capacity, levelVars, prodVars, pushed, write, metadata, mdArg,
                  filename, tiff, cam_data, img_num, written, closes, metaFiles,
                  popped, dispError, cExit, wError >>

\* while self.write:  (self.q.not_empty is a Condition object and always
\* true, so the 'continue' under it is never taken)
WriterLoopTest ==
  /\ cpc = "loop"
  /\ IF write
       THEN /\ cpc' = "get"
            /\ UNCHANGED cExit
       ELSE /\ cpc' = "close"
            /\ cExit' = "stopped"
  /\ UNCHANGED << q, capacity, levelVars, prodVars, pushed, write, metadata, mdArg,
                  filename, tiff, cam_data, img_num, written, closes, metaFiles,
                  popped, dispError, wError >>

\* cam_data = self.q.get() taking the newest item instead of the oldest.
WriterGetNewest ==
  /\ cpc = "get"
  /\ Len(q) > 0
  /\ LET item == q[Len(q)] IN
       /\ q' = SubSeq(q, 1, Len(q) - 1)
       /\ popped' = Append(popped, item)
       /\ IF item.tag = "done"
            THEN /\ cpc' = "close"
                 /\ cExit' = "done"
                 /\ UNCHANGED cam_data
            ELSE /\ cpc' = "process"
                 /\ cam_data' = item
                 /\ UNCHANGED cExit
  /\ UNCHANGED << capacity, levelVars, prodVars, pushed, write, metadata, mdArg, filename,
                  tiff, img_num, written, closes, metaFiles, dispError, wError >>

\* cam_data = self.q.get() where 'done' does not break out of the loop.
WriterGetDoneContinues ==
  /\ cpc = "get"
  /\ Len(q) > 0
  /\ LET item == Head(q) IN
       /\ q' = Tail(q)
       /\ popped' = Append(popped, item)
       /\ IF item.tag = "done"
            THEN /\ cpc' = "loop"
                 /\ UNCHANGED cam_data
            ELSE /\ cpc' = "process"
                 /\ cam_data' = item
  /\ UNCHANGED << capacity, levelVars, prodVars, pushed, write, metadata, mdArg, filename,
                  tiff, img_num, written, closes, metaFiles, dispError, cExit,
                  wError >>

\* cam_data = self.q.get(): blocks while the queue is empty; 'done' breaks
\* out of the loop, a frame enters the try block.
WriterGet ==
  /\ cpc = "get"
  /\ Len(q) > 0
  /\ LET item == Head(q) IN
       /\ q' = Tail(q)
       /\ popped' = Append(popped, item)
       /\ IF item.tag = "done"
            THEN /\ cpc' = "close"
                 /\ cExit' = "done"
                 /\ UNCHANGED cam_data
            ELSE /\ cpc' = "process"
                 /\ cam_data' = item
                 /\ UNCHANGED cExit
  /\ UNCHANGED << capacity, levelVars, prodVars, pushed, write, metadata, mdArg, filename,
                  tiff, img_num, written, closes, metaFiles, dispError, wError >>

\* The try block without the inner handler around iv.setImage: a display
\* error skips convert_to_8bit and tiff_writer.save for that frame.
WriterProcessDisplayFatal ==
  /\ cpc = "process"
  /\ IF cam_data.good
       THEN /\ dispError' \in BOOLEAN
            /\ written' = IF dispError' THEN written
                                        ELSE Append(written, cam_data.id)
            /\ cpc' = "post"
            /\ UNCHANGED << cExit, wError >>
       ELSE /\ cpc' = "crashed"
            /\ cExit' = "error"
            /\ wError' = "ValueError"
            /\ UNCHANGED << written, dispError >>
  /\ UNCHANGED << q, capacity, levelVars, prodVars, pushed, write, metadata, mdArg,
                  filename, tiff, cam_data, img_num, closes, metaFiles, popped >>

\* try: np.reshape; iv.setImage (its own except Exception prints and goes
\* on); convert_to_8bit; tiff_writer.save.  A frame of the wrong size makes
\* np.reshape raise ValueError, which no handler of run() catches.
WriterProcess ==
  /\ cpc = "process"
  /\ IF cam_data.good
       THEN /\ dispError' \in BOOLEAN
            /\ written' = Append(written, cam_data.id)
            /\ cpc' = "post"
            /\ UNCHANGED << cExit, wError >>
       ELSE /\ cpc' = "crashed"
            /\ cExit' = "error"
            /\ wError' = "ValueError"
            /\ UNCHANGED << written, dispError >>
  /\ UNCHANGED << q, capacity, levelVars, prodVars, pushed, write, metadata, mdArg,
                  filename, tiff, cam_data, img_num, closes, metaFiles, popped >>

\* print qsize / ImgNum; self.q.task_done(); img_num += 1
WriterPost ==
  /\ cpc = "post"
  /\ img_num' = img_num + 1
  /\ cam_data' = NoItem
  /\ dispError' = FALSE
  /\ cpc' = "loop"
  /\ UNCHANGED << q, capacity, levelVars, prodVars, pushed, write, metadata, mdArg,
                  filename, tiff, written, closes, metaFiles, popped,
                  cExit, wError >>

\* except KeyboardInterrupt: break -- raised inside the try block, before
\* the page is saved ("process") or after it ("post").
WriterInterrupt ==
  /\ cpc \in {"process", "post"}
  /\ cExit' = "interrupt"
  /\ cam_data' = NoItem
  /\ dispError' = FALSE
  /\ cpc' = "close"
  /\ UNCHANGED << q, capacity, levelVars, prodVars, pushed, write, metadata, mdArg,
                  filename, tiff, img_num, written, closes, metaFiles, popped,
                  wError >>

\* self.tiff_writer.close()
WriterClose ==
  /\ cpc = "close"
  /\ tiff' = "closed"
  /\ closes' = closes + 1
  /\ cpc' = "meta"
  /\ UNCHANGED << q, capacity, levelVars, prodVars, pushed, write, metadata, mdArg,
                  filename, cam_data, img_num, written, metaFiles, popped,
                  dispError, cExit, wError >>

\* BaseWriter.save_metadata: the dict literal reads metadata['version'],
\* ['stims'], ['levels'] (KeyError when absent); the sidecar name is derived
\* from a .tiff / .tif file name (ValueError otherwise); json.dump.
SaveMetadataResult(md, fn) ==
  IF ~ (({"framerate"} \cup RecordFields) \subseteq DOMAIN md)
    THEN [error |-> "KeyError", file |-> << >>]
    ELSE IF EndsWith(fn, <<".", "t", "i", "f", "f">>)
      THEN [error |-> "none", file |-> DropLast(fn, 5) \o <<".", "j", "s", "o", "n">>]
      ELSE IF EndsWith(fn, <<".", "t", "i", "f">>)
        THEN [error |-> "none", file |-> DropLast(fn, 4) \o <<".", "j", "s", "o", "n">>]
        ELSE [error |-> "ValueError", file |-> << >>]

\* self.save_metadata(self.filename): last statement of run().
WriterSaveMetadata ==
  /\ cpc = "meta"
  /\ LET r == SaveMetadataResult(metadata, filename) IN
       IF r.error = "none"
         THEN /\ metaFiles' = Append(metaFiles, r.file)
              /\ cpc' = "closed"
              /\ UNCHANGED wError
         ELSE /\ wError' = r.error
              /\ cpc' = "crashed"
              /\ UNCHANGED metaFiles
  /\ UNCHANGED << q, capacity, levelVars, prodVars, pushed, write, metadata, mdArg,
                  filename, tiff, cam_data, img_num, written, closes, popped,
                  dispError, cExit >>

\* WriterHamamatsu.end(), called by any other thread on a constructed writer.
WriterEnd ==
  /\ cpc \notin {"new", "initfailed"}
  /\ write' = FALSE
  /\ UNCHANGED << q, capacity, levelVars, prodVars, pushed, cpc, metadata, mdArg, filename,
                  tiff, cam_data, img_num, written, closes, metaFiles, popped,
                  dispError, cExit, wError >>

\* ------------------------------------------------------------ the system
Producer ==
  \/ AcquireStart
  \/ AcquireLoopTest
  \/ AcquireReadOk
  \/ AcquireReadError
  \/ AcquirePut
  \/ AcquirePutDone
  \/ AcquireTeardown

Consumer ==
  \/ WriterStart
  \/ WriterLoopTest
  \/ WriterGet
  \/ WriterProcess
  \/ WriterPost
  \/ WriterClose
  \/ WriterSaveMetadata

Next ==
  \/ AcquireStart
  \/ AcquireLoopTest
  \/ AcquireReadOk
  \/ AcquireReadError
  \/ AcquirePut
  \/ AcquireInterrupt
  \/ AcquirePutDone
  \/ AcquireTeardown
  \/ AcquireEnd
  \/ WriterInit
  \/ WriterStart
  \/ WriterLoopTest
  \/ WriterGet
  \/ WriterProcess
  \/ WriterPost
  \/ WriterInterrupt
  \/ WriterClose
  \/ WriterSaveMetadata
  \/ WriterEnd

Spec == Init /\ [][Next]_vars

\* Both threads are scheduled fairly; interrupts, end() calls and the
\* construction of the writer are the environment's and are not forced.
FairSpec == Spec /\ WF_vars(Producer) /\ WF_vars(Consumer)

\* ------------------------------------- level window and 8-bit conversion
\* The writer object on its own: BaseWriter.__init__ stores the level
\* window and the metadata, convert_to_8bit maps frames through the lookup
\* table of self.levels, save_metadata writes metadata['levels'].  run()
\* assigns neither self.levels nor self.metadata.

\* Integer level windows (low, high) within the 16-bit range.
Windows ==
  { << 0, 65535 >>, << 0, 255 >>, << 0, 254 >>, << 0, 299 >>, << 0, 511 >>,
    << 1000, 1255 >>, << 100, 100 >>, << 0, 0 >> }

\* Samples at and around the bounds of a window, and at the ends of the range.
SamplesOf(w) ==
  { s \in { 0, w[1] - 1, w[1], w[1] + 1, w[1] + 255, w[1] + 256,
            w[2] - 1, w[2], w[2] + 1, WideCard - 1 } : s \in 0..(WideCard - 1) }

\* ndarray.clip(low, high)
Clip(x, lo, hi) == IF x < lo THEN lo ELSE IF x > hi THEN hi ELSE x

\* (self.levels[1] - self.levels[0] + 1) / 256 -- Python 2 integer division
LutDivisor(lv) == (lv[2] - lv[1] + 1) \div NarrowCard

\* _lut_8bit on one uint16 sample: clip, subtract low, floor_divide by the
\* divisor (numpy's integer division by zero yields 0), astype(np.uint8).
lut_8bit(lv, s) ==
  LET shifted == (Clip(s, lv[1], lv[2]) - lv[1]) % WideCard
      quot == IF LutDivisor(lv) = 0 THEN 0 ELSE shifted \div LutDivisor(lv)
  IN  quot % NarrowCard

\* np.take(lut, image).astype(np.uint8)
convert_to_8bit(lv, img) == [i \in 1..Len(img) |-> lut_8bit(lv, img[i])]

\* BaseWriter.__init__: self.levels = levels; self.metadata = metadata
BaseWriterLevels ==
  /\ lpc = "new"
  /\ \E lv \in Windows, ml \in Windows :
       /\ levels' = lv
       /\ mdLevels' = ml
  /\ lpc' = "built"
  /\ UNCHANGED << pipeVars, image, out8, zeroDiv, level_min, level_max >>

\* img = self.convert_to_8bit(img) on a two-sample frame
ConvertFrame ==
  /\ lpc = "built"
  /\ \E s1 \in SamplesOf(levels), s2 \in SamplesOf(levels) :
       /\ image' = << s1, s2 >>
       /\ out8' = convert_to_8bit(levels, << s1, s2 >>)
  /\ zeroDiv' = (LutDivisor(levels) = 0)
  /\ UNCHANGED << pipeVars, lpc, levels, mdLevels, level_min, level_max >>

\* save_metadata: 'level_min': int(self.metadata['levels'][0]),
\*                'level_max': int(self.metadata['levels'][1])
SaveLevels ==
  /\ lpc = "built"
  /\ level_min' = mdLevels[1]
  /\ level_max' = mdLevels[2]
  /\ lpc' = "saved"
  /\ UNCHANGED << pipeVars, levels, mdLevels, image, out8, zeroDiv >>

LevelInit ==
  /\ PipelineInit
  /\ capacity = 1
  /\ lpc = "new"
  /\ levels = << 0, WideCard - 1 >>
  /\ mdLevels = << 0, WideCard - 1 >>
  /\ image = << >>
  /\ out8 = << >>
  /\ zeroDiv = FALSE
  /\ level_min = 0
  /\ level_max = 0

LevelNext ==
  \/ BaseWriterLevels
  \/ ConvertFrame
  \/ SaveLevels

LevelSpec == LevelInit /\ [][LevelNext]_vars

\* -------------------------------------------------------- derived values
IsPrefix(s, t) == Len(s) <= Len(t) /\ SubSeq(t, 1, Len(s)) = s

RECURSIVE FrameIds(_)
FrameIds(s) ==
  IF s = << >> THEN << >>
  ELSE IF Head(s).tag = "frame" THEN << Head(s).id >> \o FrameIds(Tail(s))
       ELSE FrameIds(Tail(s))

RECURSIVE CountDone(_)
CountDone(s) ==
  IF s = << >> THEN 0
  ELSE (IF Head(s).tag = "done" THEN 1 ELSE 0) + CountDone(Tail(s))

PushedFrames == FrameIds(pushed)
PoppedFrames == FrameIds(popped)
QueuedFrames == FrameIds(q)

WriterConstructed == cpc \notin {"new", "initfailed"}
WriterTerminated == cpc \in {"closed", "crashed"}
ProducerTerminated == ppc \in {"stopped", "raised"}

\* ------------------------------------------------------------------ claims

\* C1: the pages appended to the TIFF container are always a prefix of the
\* frames pushed onto the queue (same order, no duplicate, no reordering),
\* and when the writer left its loop on the 'done' marker (no frame error,
\* no end(), no interrupt) the closed container holds every pushed frame.
C1_WrittenIsPrefixOfPushed ==
  /\ IsPrefix(written, PushedFrames)
  /\ (tiff = "closed" /\ cExit = "done") => written = PushedFrames

C1_Witness ==
  /\ tiff = "closed"
  /\ cExit = "done"
  /\ Len(written) >= 2
  /\ written = PushedFrames

\* C2: whenever the container is closed, every pushed frame has been
\* appended (the writer has no other way of accounting for a frame): none is
\* unread in the queue, none was dropped after being dequeued, none is
\* pushed afterwards.
C2_AllFramesAccountedAtClose ==
  tiff = "closed" => (written = PushedFrames /\ QueuedFrames = << >>)

\* C3: the queue never holds more than its capacity; a put on a full queue
\* stays pending (nothing appended, the item kept, no exception of the
\* queue's; only an interrupt ends it) until a get has made room; a get on an
\* empty queue stays pending; every item put is either still queued or has
\* been returned by get, in order.
C3_BoundedBlockingQueue ==
  /\ [](Len(q) <= capacity /\ pushed = popped \o q)
  /\ [][ (ppc \in {"put", "putdone"} /\ Len(q) >= capacity)
           => /\ pushed' = pushed
              /\ ppc' = ppc \/ (ppc = "put" /\ ppc' = "raised")
              /\ ppc' = ppc => grey' = grey ]_vars
  /\ [][ (cpc = "get" /\ Len(q) = 0) => (cpc' = "get" /\ popped' = popped) ]_vars

C3_Witness ==
  /\ ppc = "put"
  /\ Len(q) = capacity
  /\ capacity = 1
  /\ Len(popped) >= 1

\* C4: once the producer's run() has returned, a constructed writer on which
\* end() is never called eventually has closed the container and written the
\* metadata.
C4_WriterClosesAfterProducerStops ==
  (ppc = "stopped" /\ WriterConstructed) ~> (cpc = "closed" \/ ~write)

\* C5: the writer gets the 'done' marker at most once, closes the container
\* at most once and writes the metadata at most once, and a writer that left
\* its loop on the marker ends with exactly one close and one metadata file.
C5_DoneLeadsToOneCloseOneMetadata ==
  /\ CountDone(popped) <= 1
  /\ closes <= 1
  /\ Len(metaFiles) <= 1
  /\ (cExit = "done" /\ WriterTerminated) => (closes = 1 /\ Len(metaFiles) = 1)

\* C6: 'done' is put at most once and nothing is put after it.
C6_DoneOnceAndLast ==
  /\ CountDone(pushed) <= 1
  /\ \A i \in 1..Len(pushed) : pushed[i].tag = "done" => i = Len(pushed)

C6_Witness ==
  /\ CountDone(pushed) = 1
  /\ Len(pushed) >= 3
  /\ ppc = "stopped"

\* C7: however the producer's run() ends, it has put 'done' and torn the
\* camera down (camera_open = False).
C7_EveryExitPutsDoneAndTearsDown ==
  ProducerTerminated => (CountDone(pushed) = 1 /\ ~camera_open)

\* C8: a failed read puts nothing and the loop goes on: the frames pushed
\* are those of the attempts that did not fail, and when the writer left its
\* loop on 'done' the closed container holds attempts - readErrors pages.
C8_TransientReadErrorSkipsOneFrame ==
  /\ [](/\ Len(PushedFrames) + readErrors <= attempts
        /\ frame_num = Len(PushedFrames)
        /\ (tiff = "closed" /\ cExit = "done")
              => Len(written) = attempts - readErrors)
  /\ [][ readErrors' # readErrors
           => (q' = q /\ pushed' = pushed /\ ppc' = "loop") ]_vars

C8_Witness ==
  /\ tiff = "closed"
  /\ cExit = "done"
  /\ attempts = 3
  /\ readErrors = 1
  /\ written = << 1, 3 >>

\* C9: a frame the writer cannot reshape, convert or append does not end the
\* writer thread.
C9_FrameFailureIsNotFatal ==
  ~ (cpc = "crashed" /\ cExit = "error")

\* C10: the constructor raises KeyError exactly when the metadata argument
\* has neither 'framerate' nor 'exposure', and then no TiffWriter has been
\* opened and nothing has been taken from the queue.
C10_NeitherFramerateNorExposure ==
  cpc # "new" =>
    IF DOMAIN mdArg \cap {"framerate", "exposure"} = {}
      THEN /\ cpc = "initfailed"
           /\ wError = "KeyError"
           /\ tiff = "none"
           /\ popped = << >>
      ELSE ~ (cpc = "initfailed" /\ wError = "KeyError")

C10_Witness ==
  /\ cpc = "initfailed"
  /\ wError = "KeyError"
  /\ DOMAIN mdArg = RecordFields
  /\ Len(pushed) >= 1

\* C11: a metadata argument that lacks a field of the metadata record
\* ('version', 'stims', 'levels') makes the constructor fail, before any
\* frame is taken from the queue; save_metadata never raises KeyError after
\* the container has been closed.
C11_MissingFieldFailsAtConstruction ==
  /\ (cpc # "new" /\ ~ (RecordFields \subseteq DOMAIN mdArg))
        => (cpc = "initfailed" /\ popped = << >>)
  /\ ~ (tiff = "closed" /\ wError = "KeyError")

\* C12: once end() has cleared _acquire on a producer inside run() (a writer
\* having been constructed), the producer eventually has put 'done' and torn
\* the camera down, wherever it was in the loop body -- also when it is
\* blocked in a put on a full queue whose writer has left its loop.  (A
\* KeyboardInterrupt delivered meanwhile ends run() on its own path, which
\* is not held against this claim.)
C12_EndEventuallyStopsProducer ==
  (~ acquire /\ ppc \in {"loop", "read", "put", "putdone", "teardown"}
     /\ WriterConstructed)
    ~> (ppc \in {"stopped", "raised"})

\* C13: a writer that left its loop because of end() or an interrupt ends
\* with exactly one close of the container and exactly one metadata file,
\* and a metadata file is never written before the container is closed.
C13_StopStillFinalizesOnce ==
  /\ closes <= 1
  /\ Len(metaFiles) <= closes
  /\ (Len(metaFiles) > 0 => tiff = "closed")
  /\ (cExit \in {"stopped", "interrupt"} /\ WriterTerminated)
        => (closes = 1 /\ Len(metaFiles) = 1)

\* C16: once the writer has got 'done' it is past its loop (it never tries
\* another get), and no page is appended to a closed container.
C16_DoneIsTerminalNoAppendAfterClose ==
  /\ [](CountDone(popped) >= 1 => cpc \in {"close", "meta", "closed", "crashed"})
  /\ [][ CountDone(popped) >= 1 => popped' = popped ]_vars
  /\ [][ tiff = "closed" => written' = written ]_vars

C16_Witness ==
  /\ CountDone(popped) = 1
  /\ cpc = "closed"
  /\ Len(written) >= 1
  /\ ppc = "stopped"

\* C18: AcquireHamamatsu.end() on a producer whose _acquire is already False
\* changes nothing, whatever the producer's position; 'done' is put at most
\* once, the camera is torn down only by run()'s last statement, and a
\* stopped producer stays stopped.
C18_SecondEndIsNoOp ==
  /\ [][ (~ acquire /\ AcquireEnd) => UNCHANGED vars ]_vars
  /\ [](CountDone(pushed) <= 1)
  /\ [][ camera_open' # camera_open => (ppc = "teardown" /\ ppc' = "stopped") ]_vars
  /\ [][ ppc = "stopped" => (ppc' = "stopped" /\ pushed' = pushed) ]_vars

C18_Witness ==
  /\ ~ acquire
  /\ ppc = "stopped"
  /\ attempts < MaxAttempts
  /\ CountDone(pushed) = 1
  /\ ~ camera_open

\* C19: a frame whose preview failed has been appended all the same: after
\* the try block's save the last page of the container is the frame in
\* hand, whether or not iv.setImage raised.
C19_DisplayFailureStillWrites ==
  /\ dispError => cpc = "post"
  /\ cpc = "post" => (Len(written) > 0 /\ written[Len(written)] = cam_data.id)
  /\ IsPrefix(written, PoppedFrames)

C19_Witness ==
  /\ dispError
  /\ cpc = "post"
  /\ Len(written) >= 2

\* C20: with self.write False the writer never starts another get: it gets
\* at most the one item of a get it had already started, then leaves the
\* loop at the next loop test and finalizes without having seen 'done'; a
\* get blocked on an empty queue does not notice the flag.
C20_EndStopsWriterAfterAtMostOneItem ==
  /\ [][ (~ write /\ cpc # "get") => cpc' # "get" ]_vars
  /\ [][ popped' # popped
           => (cpc = "get" /\ cpc' # "get" /\ Len(popped') = Len(popped) + 1) ]_vars
  /\ [][ (~ write /\ cpc = "loop" /\ cpc' # cpc)
           => (cpc' = "close" /\ cExit' = "stopped") ]_vars
  /\ [][ (~ write /\ cpc = "get" /\ Len(q) = 0) => cpc' = "get" ]_vars

C20_Witness ==
  /\ cExit = "stopped"
  /\ cpc = "closed"
  /\ Len(popped) >= 1
  /\ CountDone(popped) = 0
  /\ Len(q) >= 1

\* C14: for an integer window with low < high, the converted samples are
\* non-decreasing in the input samples, a sample <= low gives 0 and a sample
\* >= high gives 255.
C14_LutMonotoneAndSaturating ==
  (out8 # << >> /\ levels[1] < levels[2]) =>
    /\ \A i, j \in 1..Len(image) : image[i] <= image[j] => out8[i] <= out8[j]
    /\ \A i \in 1..Len(image) :
         /\ image[i] <= levels[1] => out8[i] = 0
         /\ image[i] >= levels[2] => out8[i] = NarrowCard - 1

\* C15: the level_min and level_max of the written record are the window
\* self.levels the converter uses.
C15_RecordLevelsAreConverterLevels ==
  lpc = "saved" => << level_min, level_max >> = levels

\* C17: converting with a window low == high does not divide by zero.
C17_DegenerateWindowNoZeroDivision ==
  (out8 # << >> /\ levels[1] = levels[2]) => ~ zeroDiv

====
